---- MODULE Spec2Model ----
(***************************************************************************)
(* PROCESS_MANAGER of the ASP.NET Core module's out-of-process request     *)
(* handler (processmanager.cpp / processmanager.h): the table of backend   *)
(* SERVER_PROCESS slots, round-robin selection, lazy start under the       *)
(* rapid-fail gate, and the shutdown operations, called from concurrent    *)
(* threads.                                                                *)
(*                                                                         *)
(* Every thread runs one call at a time; pc[t] is the source line the      *)
(* call is about to execute.  Statements that touch only state no other    *)
(* thread can observe in between (the body of an exclusive-lock section,   *)
(* followed by the release at the end of its scope) are one step.          *)
(*                                                                         *)
(* The source names the slot index processIndex at lines 83-125 and        *)
(* dwProcessIndex at lines 132-195; there is one index per call, and the   *)
(* model uses processIndex for both.                                       *)
(***************************************************************************)
EXTENDS Integers, Sequences, FiniteSets, TLC

\* ---------------------------------------------------------------- bounds
NumThreads == 2
MaxCalls == 3
MaxPPA == 2
MaxRapidFails == 1
MaxTicks == 2
MaxSlots == 3
MaxRefs == 3

\* ------------------------------------------------------ program constants
ONE_MINUTE_IN_MILLISECONDS == 60000

Threads == 1..NumThreads
\* the thread that constructs the manager and owns its first reference; the
\* only caller in the sequential specifications
Sequential == CHOOSE t \in Threads : \A u \in Threads : t <= u
\* the PROCESS_MANAGER objects of the process: 1 is the manager the other
\* variables describe, 2 a second one (another application of the process)
Instances == {1, 2}
\* every GetProcess call creates at most one SERVER_PROCESS (line 164)
Workers == 1..MaxCalls
NoThread == 0
nullptr == 0

S_OK == "S_OK"
E_APPLICATION_EXITING == "E_APPLICATION_EXITING"
ERROR_SERVER_DISABLED == "ERROR_SERVER_DISABLED"
ERROR_CREATE_FAILED == "ERROR_CREATE_FAILED"
\* the failure HRESULTs SERVER_PROCESS::Initialize and ::StartProcess hand
\* back through RETURN_IF_FAILED (lines 165, 184)
E_SP_INITIALIZE == "hr(SERVER_PROCESS::Initialize)"
E_SP_STARTPROCESS == "hr(SERVER_PROCESS::StartProcess)"
NoResult == "none"

VARIABLES
    \* PROCESS_MANAGER members (processmanager.h:44-66)
    m_cRapidFailCount,
    m_rapidFailTickStart,
    m_dwProcessesPerApplication,
    m_dwRouteToProcessIndex,
    m_srwLock,
    m_ppServerProcessList,
    serverProcessListReady,
    isStopping,
    m_hNULHandle,
    \* static std::atomic_bool PROCESS_MANAGER::isWSAStartupDone
    isWSAStartupDone,
    \* the SERVER_PROCESS objects (external collaborator)
    sp,
    nextWorker,
    \* GetTickCount64()
    now,
    ticks,
    \* the threads: current call, position, arguments, locals, results
    pc,
    op,
    pConfig,
    currentTickCount,
    processIndex,
    pSelectedServerProcess,
    seen,
    arg,
    hr,
    ppServerProcess,
    \* the return statement a finished call left through (source line)
    via,
    \* history
    calls,
    allocations,
    exchangeWinners,
    shutdownWalks,
    shutdownReturned,
    beganAfterShutdown,
    failTimes,
    initialized,
    cursor0,
    passed,
    \* the worker the current call of a thread constructed (line 164), and
    \* the worker it tore down beforehand (line 138)
    created,
    replaced,
    \* mutable std::atomic_long m_cRefs, the deletions of the manager
    \* (delete this), and per thread the references it holds and the
    \* releases it has made
    m_cRefs,
    destroyed,
    held,
    \* a second PROCESS_MANAGER of the same process: the instance the
    \* Initialize() call of a thread is on, and the second instance's members
    inst,
    peer,
    \* history of WSAStartup and CreateFileW calls
    initHist

vars == <<m_cRapidFailCount, m_rapidFailTickStart, m_dwProcessesPerApplication,
          m_dwRouteToProcessIndex, m_srwLock, m_ppServerProcessList,
          serverProcessListReady, isStopping, m_hNULHandle, isWSAStartupDone,
          sp, nextWorker, now, ticks, pc, op, pConfig, currentTickCount, processIndex, pSelectedServerProcess, seen, arg,
          hr, ppServerProcess, via, calls, allocations, exchangeWinners,
          shutdownWalks, shutdownReturned, beganAfterShutdown, failTimes,
          initialized, cursor0, passed, created, replaced, m_cRefs, destroyed,
          held, inst, peer, initHist>>

mgrVars == <<m_cRapidFailCount, m_rapidFailTickStart, m_dwProcessesPerApplication,
             m_dwRouteToProcessIndex, passed, m_ppServerProcessList,
             serverProcessListReady, isStopping>>
initVars == <<m_hNULHandle, isWSAStartupDone>>
clockVars == <<now, ticks>>
\* what GetProcess and the shutdown operations leave alone
refVars == <<m_cRefs, destroyed, held>>
peerVars == <<inst, peer, initHist>>
envVars == <<now, ticks, m_hNULHandle, isWSAStartupDone, failTimes, initialized, cursor0,
             refVars, peerVars>>
histVars == <<allocations, exchangeWinners, shutdownWalks, shutdownReturned>>

\* ------------------------------------------------------------- the lock
\* SRWLOCK: one exclusive owner, or any number of shared owners.
Unlocked == [excl |-> NoThread, shared |-> {}]
CanAcquireExclusive == m_srwLock.excl = NoThread /\ m_srwLock.shared = {}
CanAcquireShared == m_srwLock.excl = NoThread
AcquireSRWLockExclusive(t) == [m_srwLock EXCEPT !.excl = t]
AcquireSRWLockShared(t) == [m_srwLock EXCEPT !.shared = @ \cup {t}]
ReleaseSRWLockExclusive(t) == [m_srwLock EXCEPT !.excl = NoThread]
ReleaseSRWLockShared(t) == [m_srwLock EXCEPT !.shared = @ \ {t}]
HoldsExclusive(t) == m_srwLock.excl = t
HoldsShared(t) == t \in m_srwLock.shared
HoldsLock(t) == HoldsShared(t) \/ HoldsExclusive(t)

\* ------------------------------------------------- SERVER_PROCESS objects
\* st: "unborn" (not yet constructed), "new" (constructed, not started),
\* "ready", "notready" (started, IsReady() false), "stopped" (StopProcess or
\* SendSignal delivered), "deleted" (unique_ptr destroyed it).
\* stop / signal / deref count the StopProcess, SendSignal and
\* DereferenceServerProcess calls the manager made on the object.
\* started: StartProcess() returned success on it.
WorkerInit == [st |-> "unborn", started |-> FALSE, stop |-> 0, signal |-> 0, deref |-> 0]
IsReady(w) == sp[w].st = "ready"
\* identity of a worker; distinct objects listen on distinct ports
GetPort(w) == w
\* IsReady() through a pointer whose object the manager has released
\* reads freed memory: either answer
IsReadyRacy(w) == IF sp[w].deref > 0 \/ sp[w].st = "deleted"
                  THEN BOOLEAN ELSE {IsReady(w)}

SlotCount == Len(m_ppServerProcessList)
Slot(i) == m_ppServerProcessList[i + 1]
Occupied == {i \in 0..(SlotCount - 1) : Slot(i) # nullptr}

\* ------------------------------------------------------ round-robin cursor
\* std::atomic<int> m_dwRouteToProcessIndex: 32 bits, two's complement
INT_MAX == 2147483647
INT_MIN == (-INT_MAX) - 1
\* a plain load in place of fetch_add(1): the cursor never moves
FetchNoAdd(c) == c

\* fetch_add(1) on an atomic int wraps from INT_MAX to INT_MIN
FetchAddNew(c) == IF c = INT_MAX THEN INT_MIN ELSE c + 1
\* 2^32 mod k, computed as (2^16 mod k)^2 mod k
TwoTo32Mod(k) == ((65536 % k) * (65536 % k)) % k
\* int % DWORD: the int is converted to unsigned (c + 2^32 when negative)
UnsignedMod(c, k) == IF c >= 0 THEN c % k
                     ELSE ((c % k) + TwoTo32Mod(k)) % k

\* ------------------------------------------------------- rapid-fail gate
\* (currentTickCount - m_rapidFailTickStart) >= ONE_MINUTE_IN_MILLISECONDS
\* in uint64_t arithmetic: a start later than the current tick wraps to a
\* difference of at least 2^64 - start, which is above one minute.
MinuteElapsed(current, tickStart) ==
    IF current >= tickStart
    THEN current - tickStart >= ONE_MINUTE_IN_MILLISECONDS
    ELSE TRUE

\* count >= limit in place of count > limit: R failures already trip
RapidFailsAtLimit(dwRapidFailsPerMinute) == m_cRapidFailCount >= dwRapidFailsPerMinute

\* the limit compared one too high: R+1 failures do not trip yet
RapidFailsOneLate(dwRapidFailsPerMinute) == m_cRapidFailCount > dwRapidFailsPerMinute + 1

\* line 256: the value RapidFailsPerMinuteExceeded returns, from the count
\* it loads after the reset
RapidFailsPerMinuteExceeded(dwRapidFailsPerMinute) ==
    m_cRapidFailCount > dwRapidFailsPerMinute

\* ------------------------------------------------------------ slot walks
WalkRange == 0..(m_dwProcessesPerApplication - 1)
ListAllocated == m_ppServerProcessList # <<>>

\* slots the loop of ShutdownAllProcessesNoLock / SendShutdownSignal visits
\* and finds occupied
AllOccupiedSlots ==
    {i \in WalkRange : ListAllocated /\ Slot(i) # nullptr}

\* slots whose worker has the port of pServerProcess
MatchingSlots(pServerProcess) ==
    {i \in WalkRange : ListAllocated /\ Slot(i) # nullptr
                         /\ GetPort(Slot(i)) = GetPort(pServerProcess)}

\* the manager has released its reference to the object (line 269 or 284),
\* or the creating call destroyed it (line 197)
Released(w) == sp[w].deref > 0 \/ sp[w].st = "deleted"

\* The sets of slots one run of ShutdownProcessNoLock may clear.  The loop
\* has no break and evaluates pServerProcess->GetPort() at every occupied
\* slot.  GetProcess hands out the slot's pointer with no reference added
\* (line 143 is commented out) and line 138 passes the slot's own pointer:
\* the object is released at the matching slot (line 269) and the later
\* iterations read its port from released memory, so each later occupied
\* slot may or may not compare equal.  A handle whose object was released
\* before the call is read from released memory at every occupied slot.
ShutdownProcessNoLockSlots(pServerProcess) ==
    LET match == MatchingSlots(pServerProcess)
        own == {i \in match : Slot(i) = pServerProcess}
        later == {j \in AllOccupiedSlots \ match : \E i \in own : j > i}
    IN IF Released(pServerProcess)
       THEN SUBSET AllOccupiedSlots
       ELSE {match \cup extra : extra \in SUBSET later}

ClearSlots(S) ==
    [k \in 1..Len(m_ppServerProcessList) |->
        IF (k - 1) \in S THEN nullptr ELSE m_ppServerProcessList[k]]

\* StopProcess() left out: the slot is released and cleared, the process
\* keeps running
ReleaseWorkersOnly(S) ==
    [w \in Workers |->
        IF ListAllocated /\ \E i \in S : Slot(i) = w
        THEN [sp[w] EXCEPT !.deref = @ + 1]
        ELSE sp[w]]

\* StopProcess(); DereferenceServerProcess() on the workers of slots S
StopWorkers(S) ==
    [w \in Workers |->
        IF ListAllocated /\ \E i \in S : Slot(i) = w
        THEN [sp[w] EXCEPT !.st = "stopped", !.stop = @ + 1, !.deref = @ + 1]
        ELSE sp[w]]

\* DereferenceServerProcess() left out: the workers are signalled and their
\* slots cleared, the manager's reference is never given up
SignalWithoutRelease(S) ==
    [w \in Workers |->
        IF ListAllocated /\ \E i \in S : Slot(i) = w
        THEN [sp[w] EXCEPT !.st = "stopped", !.signal = @ + 1]
        ELSE sp[w]]

\* SendSignal(); DereferenceServerProcess() on the workers of slots S
SignalWorkers(S) ==
    [w \in Workers |->
        IF ListAllocated /\ \E i \in S : Slot(i) = w
        THEN [sp[w] EXCEPT !.st = "stopped", !.signal = @ + 1, !.deref = @ + 1]
        ELSE sp[w]]

\* ------------------------------------------------------------ the threads
Configs == [ppa : 1..MaxPPA, rapidFails : 0..MaxRapidFails]
NoConfig == [ppa |-> 1, rapidFails |-> 0]

Init ==
    /\ m_cRapidFailCount = 0
    \* m_rapidFailTickStart has no initializer (processmanager.h:45): until
    \* Initialize() runs it holds whatever the memory held
    /\ m_rapidFailTickStart \in {0, ONE_MINUTE_IN_MILLISECONDS, 3 * ONE_MINUTE_IN_MILLISECONDS}
    /\ m_dwProcessesPerApplication = 1
    /\ m_dwRouteToProcessIndex = 0
    /\ m_srwLock = Unlocked
    /\ m_ppServerProcessList = <<>>
    /\ serverProcessListReady = FALSE
    /\ isStopping = FALSE
    /\ m_hNULHandle = "nullptr"
    /\ isWSAStartupDone = FALSE
    /\ sp = [w \in Workers |-> WorkerInit]
    /\ nextWorker = 1
    /\ now = ONE_MINUTE_IN_MILLISECONDS
    /\ ticks = 0
    /\ pc = [t \in Threads |-> "idle"]
    /\ op = [t \in Threads |-> "none"]
    /\ pConfig = [t \in Threads |-> NoConfig]
    /\ currentTickCount = [t \in Threads |-> 0]
    /\ processIndex = [t \in Threads |-> 0]
    /\ pSelectedServerProcess = [t \in Threads |-> nullptr]
    /\ seen = [t \in Threads |-> nullptr]
    /\ arg = [t \in Threads |-> nullptr]
    /\ hr = [t \in Threads |-> NoResult]
    /\ ppServerProcess = [t \in Threads |-> nullptr]
    /\ via = [t \in Threads |-> 0]
    /\ calls = 0
    /\ allocations = 0
    /\ exchangeWinners = 0
    /\ shutdownWalks = 0
    /\ shutdownReturned = FALSE
    /\ beganAfterShutdown = [t \in Threads |-> FALSE]
    /\ failTimes = <<>>
    /\ initialized = FALSE
    /\ cursor0 = 0
    /\ passed = 0
    /\ created = [t \in Threads |-> nullptr]
    /\ replaced = [t \in Threads |-> nullptr]
    /\ m_cRefs = 1
    /\ destroyed = 0
    /\ held = [t \in Threads |->
                 [refs |-> IF t = Sequential THEN 1 ELSE 0, released |-> 0]]
    /\ inst = [t \in Threads |-> 1]
    /\ peer = [m_srwLock |-> Unlocked, m_hNULHandle |-> "nullptr"]
    /\ initHist = [startups |-> 0, opens |-> [i \in Instances |-> 0]]

Goto(t, label) == pc' = [pc EXCEPT ![t] = label]

localVars == <<pConfig, currentTickCount, processIndex, pSelectedServerProcess, seen, arg, hr, ppServerProcess, via>>
frameVars == <<op, calls, beganAfterShutdown, created, replaced>>

\* a thread enters a call
Enter(t, name, label) ==
    /\ pc[t] = "idle"
    /\ calls < MaxCalls
    /\ calls' = calls + 1
    /\ op' = [op EXCEPT ![t] = name]
    /\ beganAfterShutdown' = [beganAfterShutdown EXCEPT ![t] = shutdownReturned]
    /\ UNCHANGED <<created, replaced>>
    /\ Goto(t, label)

\* the call of thread t returns result at the given source line, with
\* *ppServerProcess = out
Finish(t, result, out, line) ==
    /\ via' = [via EXCEPT ![t] = line]
    /\ hr' = [hr EXCEPT ![t] = result]
    /\ ppServerProcess' = [ppServerProcess EXCEPT ![t] = out]
    /\ Goto(t, "done")

\* ------------------------------------------------------------- GetProcess
\* the steps of GetProcess that read m_ppServerProcessList[...]: lines
\* 116-119, 125, 126, 130-144, 162 and 195; line 192 writes it
SlotReadingSteps == {"gp114", "gp125", "gp126", "gp130", "gp162", "gp195"}

CallGetProcess(t) ==
    /\ Enter(t, "GetProcess", "gp85")
    /\ \E c \in Configs : pConfig' = [pConfig EXCEPT ![t] = c]
    /\ UNCHANGED <<mgrVars, m_srwLock, sp, nextWorker, envVars, histVars, currentTickCount,
                   processIndex, pSelectedServerProcess, seen, arg, hr, ppServerProcess, via>>

\* the check of line 85 left out
StoppingCheckMissing(t) ==
    Goto(t, "gp90") /\ UNCHANGED <<hr, ppServerProcess, via>>

\* line 85: if (isStopping) RETURN_IF_FAILED(E_APPLICATION_EXITING)
StoppingCheck(t) ==
    IF isStopping
    THEN Finish(t, E_APPLICATION_EXITING, ppServerProcess[t], 87)
    ELSE Goto(t, "gp90") /\ UNCHANGED <<hr, ppServerProcess, via>>

GetProcess85(t) ==
    /\ pc[t] = "gp85"
    /\ StoppingCheck(t)
    /\ UNCHANGED <<mgrVars, m_srwLock, sp, nextWorker, envVars, histVars, frameVars,
                   pConfig, currentTickCount, processIndex, pSelectedServerProcess, seen, arg>>

\* line 90: if (!serverProcessListReady)
GetProcess90(t) ==
    /\ pc[t] = "gp90"
    /\ Goto(t, IF serverProcessListReady THEN "gp109" ELSE "gp92")
    /\ UNCHANGED <<mgrVars, m_srwLock, sp, nextWorker, envVars, histVars, frameVars, localVars>>

\* line 92: auto lock = SRWExclusiveLock(m_srwLock)
GetProcess92(t) ==
    /\ pc[t] = "gp92"
    /\ CanAcquireExclusive
    /\ m_srwLock' = AcquireSRWLockExclusive(t)
    /\ Goto(t, "gp94")
    /\ UNCHANGED <<mgrVars, sp, nextWorker, envVars, histVars, frameVars, localVars>>

\* lines 94-103: the table the allocating call builds
AllocateList(config) == [k \in 1..config.ppa |-> nullptr]

\* the second check left out: every caller that saw the flag false at
\* line 90 allocates
AllocateUnchecked == TRUE

\* line 94: if (!serverProcessListReady), under the exclusive lock
MustAllocate == ~serverProcessListReady

\* lines 94-106: allocate once, mark ready, leave the lock scope
GetProcess94(t) ==
    /\ pc[t] = "gp94"
    /\ HoldsExclusive(t)
    /\ IF MustAllocate
       THEN /\ m_dwProcessesPerApplication' = pConfig[t].ppa
            /\ m_ppServerProcessList' = AllocateList(pConfig[t])
            /\ allocations' = allocations + 1
       ELSE UNCHANGED <<m_dwProcessesPerApplication, m_ppServerProcessList, allocations>>
    /\ serverProcessListReady' = TRUE
    /\ m_srwLock' = ReleaseSRWLockExclusive(t)
    /\ Goto(t, "gp109")
    /\ UNCHANGED <<m_cRapidFailCount, m_rapidFailTickStart, m_dwRouteToProcessIndex, passed,
                   isStopping, sp, nextWorker, envVars, exchangeWinners,
                   shutdownWalks, shutdownReturned, frameVars, localVars>>

\* line 109: auto lock = SRWSharedLock(m_srwLock)
GetProcess109(t) ==
    /\ pc[t] = "gp109"
    /\ CanAcquireShared
    /\ m_srwLock' = AcquireSRWLockShared(t)
    /\ Goto(t, "gp114")
    /\ UNCHANGED <<mgrVars, sp, nextWorker, envVars, histVars, frameVars, localVars>>

\* line 114: the slot index a cursor value selects
SelectIndex(cursor) == UnsignedMod(cursor, m_dwProcessesPerApplication)

\* lines 114-122: advance the cursor, return the slot's worker if ready
GetProcess114(t) ==
    /\ pc[t] = "gp114"
    /\ HoldsShared(t)
    /\ LET index == SelectIndex(m_dwRouteToProcessIndex)
       IN /\ processIndex' = [processIndex EXCEPT ![t] = index]
          /\ m_dwRouteToProcessIndex' = FetchAddNew(m_dwRouteToProcessIndex)
          /\ passed' = passed + 1
          /\ IF Slot(index) # nullptr /\ IsReady(Slot(index))
             THEN Finish(t, S_OK, Slot(index), 120)
             ELSE Goto(t, "gp125") /\ UNCHANGED <<hr, ppServerProcess, via>>
    /\ m_srwLock' = ReleaseSRWLockShared(t)
    /\ UNCHANGED <<m_cRapidFailCount, m_rapidFailTickStart, m_dwProcessesPerApplication,
                   m_ppServerProcessList, serverProcessListReady, isStopping,
                   sp, nextWorker, envVars, histVars, frameVars,
                   pConfig, currentTickCount, pSelectedServerProcess, seen, arg>>

\* line 125: m_ppServerProcessList[processIndex] == nullptr, read with no lock
GetProcess125(t) ==
    /\ pc[t] = "gp125"
    /\ seen' = [seen EXCEPT ![t] = Slot(processIndex[t])]
    /\ Goto(t, IF Slot(processIndex[t]) = nullptr THEN "gp128" ELSE "gp126")
    /\ UNCHANGED <<mgrVars, m_srwLock, sp, nextWorker, envVars, histVars, frameVars,
                   pConfig, currentTickCount, processIndex, pSelectedServerProcess, arg, hr, ppServerProcess, via>>

\* The pointer line 126 dereferences.  The slot is a plain pointer read
\* with no lock at lines 125 and 126: the build may keep the value line 125
\* loaded or load the slot again, after another thread has changed it.
SlotReread(t) == {seen[t], Slot(processIndex[t])}

\* line 126: !m_ppServerProcessList[processIndex]->IsReady(), with no lock;
\* seen keeps the pointer the call dereferenced.
\* A reloaded slot that has been cleared meanwhile is a null pointer
\* dereference: the call faults.
GetProcess126(t) ==
    /\ pc[t] = "gp126"
    /\ \E p \in SlotReread(t) :
          /\ seen' = [seen EXCEPT ![t] = p]
          /\ IF p = nullptr
             THEN Goto(t, "fault")
             ELSE \E ready \in IsReadyRacy(p) :
                     Goto(t, IF ready THEN "gp195" ELSE "gp128")
    /\ UNCHANGED <<mgrVars, m_srwLock, sp, nextWorker, envVars, histVars, frameVars,
                   pConfig, currentTickCount, processIndex, pSelectedServerProcess, arg, hr, ppServerProcess, via>>

\* line 128: auto lock = SRWExclusiveLock(m_srwLock)
GetProcess128(t) ==
    /\ pc[t] = "gp128"
    /\ CanAcquireExclusive
    /\ m_srwLock' = AcquireSRWLockExclusive(t)
    /\ Goto(t, "gp130")
    /\ UNCHANGED <<mgrVars, sp, nextWorker, envVars, histVars, frameVars, localVars>>

\* the else branch of lines 140-146 left out: an occupied slot is always
\* torn down
RecheckNoReuse(index) ==
    IF Slot(index) = nullptr THEN "create" ELSE "stop"

\* lines 130-147: the re-check under the exclusive lock.  "stop": the slot
\* holds a worker that is not ready; "reuse": it holds a ready one;
\* "create": it is empty.
Recheck(index) ==
    IF Slot(index) = nullptr THEN "create"
    ELSE IF IsReady(Slot(index)) THEN "reuse" ELSE "stop"

GetProcess130(t) ==
    /\ pc[t] = "gp130"
    /\ HoldsExclusive(t)
    /\ LET index == processIndex[t]
       IN CASE Recheck(index) = "stop" ->
                 /\ \E S \in ShutdownProcessNoLockSlots(Slot(index)) :
                       /\ m_ppServerProcessList' = ClearSlots(S)
                       /\ sp' = StopWorkers(S)
                 /\ replaced' = [replaced EXCEPT ![t] = Slot(index)]
                 /\ Goto(t, "gp149")
                 /\ UNCHANGED <<m_srwLock, hr, ppServerProcess, via>>
            [] Recheck(index) = "reuse" ->
                 /\ Finish(t, S_OK, Slot(index), 145)
                 /\ m_srwLock' = ReleaseSRWLockExclusive(t)
                 /\ UNCHANGED <<m_ppServerProcessList, sp, replaced>>
            [] Recheck(index) = "create" ->
                 /\ Goto(t, "gp149")
                 /\ UNCHANGED <<m_srwLock, m_ppServerProcessList, sp, hr, ppServerProcess,
                                via, replaced>>
    /\ UNCHANGED <<m_cRapidFailCount, m_rapidFailTickStart, m_dwProcessesPerApplication,
                   m_dwRouteToProcessIndex, passed, serverProcessListReady, isStopping,
                   nextWorker, envVars, histVars, op, calls, beganAfterShutdown, created,
                   pConfig, currentTickCount, processIndex, pSelectedServerProcess, seen, arg>>

\* The rapid-fail gate.  GetProcess holds the lock exclusively, but
\* IncrementRapidFailCount() and Initialize() take no lock: each load and
\* store of RapidFailsPerMinuteExceeded is a step of its own.
gateUnchanged == <<m_dwProcessesPerApplication, m_dwRouteToProcessIndex, passed,
                   m_ppServerProcessList, serverProcessListReady, isStopping,
                   m_srwLock, sp, nextWorker, envVars, histVars, frameVars,
                   pConfig, processIndex, pSelectedServerProcess, seen, arg,
                   hr, ppServerProcess, via>>

\* lines 149, 247: the call, and currentTickCount = GetTickCount64()
GetProcess149(t) ==
    /\ pc[t] = "gp149"
    /\ HoldsExclusive(t)
    /\ currentTickCount' = [currentTickCount EXCEPT ![t] = now]
    /\ Goto(t, "rf249")
    /\ UNCHANGED <<m_cRapidFailCount, m_rapidFailTickStart, gateUnchanged>>

\* line 249: if ((currentTickCount - m_rapidFailTickStart) >= ONE_MINUTE_IN_MILLISECONDS)
RapidFails249(t) ==
    /\ pc[t] = "rf249"
    /\ Goto(t, IF MinuteElapsed(currentTickCount[t], m_rapidFailTickStart)
               THEN "rf252" ELSE "rf256")
    /\ UNCHANGED <<m_cRapidFailCount, m_rapidFailTickStart, currentTickCount, gateUnchanged>>

\* line 252: m_cRapidFailCount = 0
RapidFails252(t) ==
    /\ pc[t] = "rf252"
    /\ m_cRapidFailCount' = 0
    /\ Goto(t, "rf253")
    /\ UNCHANGED <<m_rapidFailTickStart, currentTickCount, gateUnchanged>>

\* line 253: m_rapidFailTickStart = currentTickCount
RapidFails253(t) ==
    /\ pc[t] = "rf253"
    /\ m_rapidFailTickStart' = currentTickCount[t]
    /\ Goto(t, "rf256")
    /\ UNCHANGED <<m_cRapidFailCount, currentTickCount, gateUnchanged>>

\* lines 256, 149-160: return m_cRapidFailCount > dwRapidFailsPerMinute, and
\* RETURN_HR(ERROR_SERVER_DISABLED) when it is true
RapidFails256(t) ==
    /\ pc[t] = "rf256"
    /\ HoldsExclusive(t)
    /\ IF RapidFailsPerMinuteExceeded(pConfig[t].rapidFails)
       THEN /\ Finish(t, ERROR_SERVER_DISABLED, ppServerProcess[t], 159)
            /\ m_srwLock' = ReleaseSRWLockExclusive(t)
       ELSE /\ Goto(t, "gp162")
            /\ UNCHANGED <<m_srwLock, hr, ppServerProcess, via>>
    /\ UNCHANGED <<m_cRapidFailCount, m_rapidFailTickStart, m_dwProcessesPerApplication,
                   m_dwRouteToProcessIndex, passed,
                   m_ppServerProcessList, serverProcessListReady, isStopping,
                   sp, nextWorker, envVars, histVars, frameVars,
                   pConfig, currentTickCount, processIndex, pSelectedServerProcess, seen, arg>>

\* what SERVER_PROCESS::Initialize and ::StartProcess may do (lines 165, 184)
StartOutcomes == {"initialize failed", "start failed", "started"}
\* the failure SERVER_PROCESS::Initialize or ::StartProcess reports: any
\* failure HRESULT, the one of line 189 included
InitializeFailures == {E_SP_INITIALIZE, ERROR_CREATE_FAILED}
StartProcessFailures == {E_SP_STARTPROCESS, ERROR_CREATE_FAILED}
\* IsReady() of a worker whose StartProcess() has just succeeded
StartedStates == {"ready", "notready"}

\* A return that leaves a worker in the function-scope unique_ptr of line
\* 82: the result is fixed and the lock of the inner block (line 128) is
\* released by the caller of Unwind; the worker is destroyed afterwards, at
\* the end of the function scope.
Unwind(t, result, line) ==
    /\ via' = [via EXCEPT ![t] = line]
    /\ hr' = [hr EXCEPT ![t] = result]
    /\ Goto(t, "gp197")
    /\ UNCHANGED ppServerProcess

\* lines 162-185: construct, initialize and start a worker for an empty
\* slot; a failed Initialize or StartProcess returns through the end of the
\* lock scope, with the worker still held by pSelectedServerProcess
GetProcess162(t) ==
    /\ pc[t] = "gp162"
    /\ HoldsExclusive(t)
    /\ IF Slot(processIndex[t]) = nullptr
       THEN /\ nextWorker \in Workers
            /\ nextWorker' = nextWorker + 1
            /\ \E outcome \in StartOutcomes :
                 CASE outcome = "initialize failed" ->
                        /\ sp' = [sp EXCEPT ![nextWorker].st = "new"]
                        /\ \E e \in InitializeFailures : Unwind(t, e, 165)
                        /\ m_srwLock' = ReleaseSRWLockExclusive(t)
                        /\ created' = [created EXCEPT ![t] = nextWorker]
                        /\ pSelectedServerProcess' =
                              [pSelectedServerProcess EXCEPT ![t] = nextWorker]
                   [] outcome = "start failed" ->
                        /\ sp' = [sp EXCEPT ![nextWorker].st = "new"]
                        /\ \E e \in StartProcessFailures : Unwind(t, e, 184)
                        /\ m_srwLock' = ReleaseSRWLockExclusive(t)
                        /\ created' = [created EXCEPT ![t] = nextWorker]
                        /\ pSelectedServerProcess' =
                              [pSelectedServerProcess EXCEPT ![t] = nextWorker]
                   [] outcome = "started" ->
                        /\ \E st \in StartedStates :
                              sp' = [sp EXCEPT ![nextWorker].st = st,
                                               ![nextWorker].started = TRUE]
                        /\ pSelectedServerProcess' =
                              [pSelectedServerProcess EXCEPT ![t] = nextWorker]
                        /\ created' = [created EXCEPT ![t] = nextWorker]
                        /\ Goto(t, "gp187")
                        /\ UNCHANGED <<m_srwLock, hr, ppServerProcess, via>>
       ELSE /\ Goto(t, "gp187")
            /\ UNCHANGED <<nextWorker, sp, m_srwLock, hr, ppServerProcess, via,
                           pSelectedServerProcess, created>>
    /\ UNCHANGED <<mgrVars, envVars, histVars, op, calls, beganAfterShutdown, replaced,
                   pConfig, currentTickCount, processIndex, seen, arg>>

\* line 192: m_ppServerProcessList[dwProcessIndex] = pSelectedServerProcess.release()
InstallWorker(index, w) == [m_ppServerProcessList EXCEPT ![index + 1] = w]

\* line 187: if (!pSelectedServerProcess->IsReady())
CreateFailed(w) == ~IsReady(w)

\* lines 187-193: the post-start readiness check, the store into the slot,
\* the end of the lock scope.  A null pSelectedServerProcess is dereferenced
\* at line 187: the call faults with the lock held.  The return of line 189
\* releases the lock and leaves the worker to the end of the function scope.
GetProcess187(t) ==
    /\ pc[t] = "gp187"
    /\ HoldsExclusive(t)
    /\ LET w == pSelectedServerProcess[t]
       IN IF w = nullptr
          THEN /\ Goto(t, "fault")
               /\ UNCHANGED <<m_srwLock, m_ppServerProcessList, sp, hr,
                              ppServerProcess, pSelectedServerProcess>>
          ELSE /\ m_srwLock' = ReleaseSRWLockExclusive(t)
               /\ IF CreateFailed(w)
                  THEN /\ Unwind(t, ERROR_CREATE_FAILED, 189)
                       /\ UNCHANGED <<sp, m_ppServerProcessList, pSelectedServerProcess>>
                  ELSE /\ pSelectedServerProcess' =
                             [pSelectedServerProcess EXCEPT ![t] = nullptr]
                       /\ m_ppServerProcessList' = InstallWorker(processIndex[t], w)
                       /\ Goto(t, "gp195")
                       /\ UNCHANGED <<sp, hr, ppServerProcess, via>>
    /\ UNCHANGED <<m_cRapidFailCount, m_rapidFailTickStart, m_dwProcessesPerApplication,
                   m_dwRouteToProcessIndex, passed, serverProcessListReady, isStopping,
                   nextWorker, envVars, histVars, frameVars,
                   pConfig, currentTickCount, processIndex, seen, arg>>

\* line 197, the end of the function scope on the returns of lines 165,
\* 184 and 189: the unique_ptr of line 82 destroys the worker it holds,
\* after the lock has been released
GetProcess197(t) ==
    /\ pc[t] = "gp197"
    /\ sp' = [sp EXCEPT ![pSelectedServerProcess[t]].st = "deleted"]
    /\ pSelectedServerProcess' = [pSelectedServerProcess EXCEPT ![t] = nullptr]
    /\ Goto(t, "done")
    /\ UNCHANGED <<mgrVars, m_srwLock, nextWorker, envVars, histVars, frameVars,
                   pConfig, currentTickCount, processIndex, seen, arg,
                   hr, ppServerProcess, via>>

\* lines 195-196: *ppServerProcess = m_ppServerProcessList[dwProcessIndex],
\* read after the lock scope has ended
GetProcess195(t) ==
    /\ pc[t] = "gp195"
    /\ Finish(t, S_OK, Slot(processIndex[t]), 196)
    /\ UNCHANGED <<mgrVars, m_srwLock, sp, nextWorker, envVars, histVars, frameVars,
                   pConfig, currentTickCount, processIndex, pSelectedServerProcess, seen, arg>>

\* the call returns to its caller
Return(t) ==
    /\ pc[t] = "done"
    /\ Goto(t, "idle")
    /\ shutdownReturned' = (shutdownReturned \/ op[t] = "Shutdown")
    /\ op' = [op EXCEPT ![t] = "none"]
    /\ pConfig' = [pConfig EXCEPT ![t] = NoConfig]
    /\ currentTickCount' = [currentTickCount EXCEPT ![t] = 0]
    /\ processIndex' = [processIndex EXCEPT ![t] = 0]
    /\ seen' = [seen EXCEPT ![t] = nullptr]
    /\ arg' = [arg EXCEPT ![t] = nullptr]
    /\ hr' = [hr EXCEPT ![t] = NoResult]
    /\ ppServerProcess' = [ppServerProcess EXCEPT ![t] = nullptr]
    /\ via' = [via EXCEPT ![t] = 0]
    /\ created' = [created EXCEPT ![t] = nullptr]
    /\ replaced' = [replaced EXCEPT ![t] = nullptr]
    /\ inst' = [inst EXCEPT ![t] = 1]
    /\ UNCHANGED <<mgrVars, m_srwLock, sp, nextWorker, now, ticks, m_hNULHandle,
                   isWSAStartupDone, failTimes, initialized, cursor0, refVars,
                   peer, initHist, allocations,
                   exchangeWinners, shutdownWalks, calls, beganAfterShutdown,
                   pSelectedServerProcess>>

\* ------------------------------------------------------ shutdown operations
CallShutdown(t) ==
    /\ Enter(t, "Shutdown", "sd233")
    /\ UNCHANGED <<mgrVars, m_srwLock, sp, nextWorker, envVars, histVars, localVars>>

\* line 233: isStopping.exchange(true), the value it leaves in the flag
StoppingExchange == TRUE

\* a plain store in place of the exchange: every caller goes on to the walk
Shutdown233Store(t) ==
    /\ pc[t] = "sd233"
    /\ isStopping' = StoppingExchange
    /\ exchangeWinners' = exchangeWinners + (IF isStopping THEN 0 ELSE 1)
    /\ Goto(t, "sa226")
    /\ UNCHANGED <<m_cRapidFailCount, m_rapidFailTickStart, m_dwProcessesPerApplication,
                   m_dwRouteToProcessIndex, passed, m_ppServerProcessList, serverProcessListReady,
                   m_srwLock, sp, nextWorker, envVars, allocations, shutdownWalks,
                   shutdownReturned, frameVars, localVars>>

\* lines 233-236: only the caller that reads false goes on to the walk
Shutdown233(t) ==
    /\ pc[t] = "sd233"
    /\ isStopping' = StoppingExchange
    /\ IF ~isStopping
       THEN /\ exchangeWinners' = exchangeWinners + 1
            /\ Goto(t, "sa226")
            /\ UNCHANGED hr
       ELSE /\ hr' = [hr EXCEPT ![t] = "void"]
            /\ Goto(t, "done")
            /\ UNCHANGED exchangeWinners
    /\ UNCHANGED <<m_cRapidFailCount, m_rapidFailTickStart, m_dwProcessesPerApplication,
                   m_dwRouteToProcessIndex, passed, m_ppServerProcessList, serverProcessListReady,
                   m_srwLock, sp, nextWorker, envVars, allocations, shutdownWalks,
                   shutdownReturned, frameVars, pConfig, currentTickCount, processIndex,
                   pSelectedServerProcess, seen, arg, ppServerProcess, via>>

CallShutdownAllProcesses(t) ==
    /\ Enter(t, "ShutdownAllProcesses", "sa226")
    /\ UNCHANGED <<mgrVars, m_srwLock, sp, nextWorker, envVars, histVars, localVars>>

\* line 226: AcquireSRWLockExclusive(&m_srwLock)
ShutdownAllProcesses226(t) ==
    /\ pc[t] = "sa226"
    /\ CanAcquireExclusive
    /\ m_srwLock' = AcquireSRWLockExclusive(t)
    /\ Goto(t, "sa227")
    /\ UNCHANGED <<mgrVars, sp, nextWorker, envVars, histVars, frameVars, localVars>>

\* lines 275-288: SendSignal, DereferenceServerProcess, clear, on every
\* occupied slot
ShutdownAllProcessesNoLock ==
    [list |-> ClearSlots(AllOccupiedSlots), sp |-> SignalWorkers(AllOccupiedSlots)]

\* lines 227-228
ShutdownAllProcesses227(t) ==
    /\ pc[t] = "sa227"
    /\ HoldsExclusive(t)
    /\ m_ppServerProcessList' = ShutdownAllProcessesNoLock.list
    /\ sp' = ShutdownAllProcessesNoLock.sp
    /\ shutdownWalks' = shutdownWalks + (IF op[t] = "Shutdown" THEN 1 ELSE 0)
    /\ m_srwLock' = ReleaseSRWLockExclusive(t)
    /\ hr' = [hr EXCEPT ![t] = "void"]
    /\ Goto(t, "done")
    /\ UNCHANGED <<m_cRapidFailCount, m_rapidFailTickStart, m_dwProcessesPerApplication,
                   m_dwRouteToProcessIndex, passed, serverProcessListReady, isStopping,
                   nextWorker, envVars, allocations, exchangeWinners, shutdownReturned,
                   frameVars, pConfig, currentTickCount, processIndex, pSelectedServerProcess, seen, arg,
                   ppServerProcess, via>>

CallSendShutdownSignal(t) ==
    /\ Enter(t, "SendShutdownSignal", "ss201")
    /\ UNCHANGED <<mgrVars, m_srwLock, sp, nextWorker, envVars, histVars, localVars>>

\* line 201
SendShutdownSignal201(t) ==
    /\ pc[t] = "ss201"
    /\ CanAcquireExclusive
    /\ m_srwLock' = AcquireSRWLockExclusive(t)
    /\ Goto(t, "ss203")
    /\ UNCHANGED <<mgrVars, sp, nextWorker, envVars, histVars, frameVars, localVars>>

\* lines 203-212: SendSignal, DereferenceServerProcess, clear
SendShutdownSignalWalk ==
    [list |-> ClearSlots(AllOccupiedSlots), sp |-> SignalWorkers(AllOccupiedSlots)]

\* lines 203-214
SendShutdownSignal203(t) ==
    /\ pc[t] = "ss203"
    /\ HoldsExclusive(t)
    /\ m_ppServerProcessList' = SendShutdownSignalWalk.list
    /\ sp' = SendShutdownSignalWalk.sp
    /\ m_srwLock' = ReleaseSRWLockExclusive(t)
    /\ hr' = [hr EXCEPT ![t] = "void"]
    /\ Goto(t, "done")
    /\ UNCHANGED <<m_cRapidFailCount, m_rapidFailTickStart, m_dwProcessesPerApplication,
                   m_dwRouteToProcessIndex, passed, serverProcessListReady, isStopping,
                   nextWorker, envVars, histVars, frameVars, pConfig, currentTickCount, processIndex,
                   pSelectedServerProcess, seen, arg, ppServerProcess, via>>

\* handles a caller can pass to ShutdownProcess: workers GetProcess has
\* started and that still exist
Handles == {w \in Workers : sp[w].started /\ sp[w].st # "deleted"}

CallShutdownProcess(t) ==
    /\ Enter(t, "ShutdownProcess", "sp219")
    /\ \E w \in Handles : arg' = [arg EXCEPT ![t] = w]
    /\ UNCHANGED <<mgrVars, m_srwLock, sp, nextWorker, envVars, histVars,
                   pConfig, currentTickCount, processIndex, pSelectedServerProcess, seen, hr, ppServerProcess, via>>

\* line 219
ShutdownProcess219(t) ==
    /\ pc[t] = "sp219"
    /\ CanAcquireExclusive
    /\ m_srwLock' = AcquireSRWLockExclusive(t)
    /\ Goto(t, "sp220")
    /\ UNCHANGED <<mgrVars, sp, nextWorker, envVars, histVars, frameVars, localVars>>

\* lines 220-221: ShutdownProcessNoLock(pServerProcess) and the release of
\* the lock
ShutdownProcess220(t) ==
    /\ pc[t] = "sp220"
    /\ HoldsExclusive(t)
    /\ \E S \in ShutdownProcessNoLockSlots(arg[t]) :
          /\ m_ppServerProcessList' = ClearSlots(S)
          /\ sp' = StopWorkers(S)
    /\ m_srwLock' = ReleaseSRWLockExclusive(t)
    /\ hr' = [hr EXCEPT ![t] = "void"]
    /\ Goto(t, "done")
    /\ UNCHANGED <<m_cRapidFailCount, m_rapidFailTickStart, m_dwProcessesPerApplication,
                   m_dwRouteToProcessIndex, passed, serverProcessListReady, isStopping,
                   nextWorker, envVars, histVars, frameVars, pConfig, currentTickCount, processIndex,
                   pSelectedServerProcess, seen, arg, ppServerProcess, via>>

\* ------------------------------------------------------------- rapid fail
\* lines 239-242: m_cRapidFailCount++ on the atomic, no lock; the whole
\* call is one step
IncrementRapidFailCount(t) ==
    /\ pc[t] = "idle"
    /\ calls < MaxCalls
    /\ calls' = calls + 1
    /\ m_cRapidFailCount' = m_cRapidFailCount + 1
    /\ failTimes' = Append(failTimes, now)
    /\ UNCHANGED <<m_rapidFailTickStart, m_dwProcessesPerApplication,
                   m_dwRouteToProcessIndex, passed, m_ppServerProcessList, serverProcessListReady,
                   isStopping, m_srwLock, sp, nextWorker, now, ticks, m_hNULHandle,
                   isWSAStartupDone, initialized, cursor0, refVars, peerVars, histVars,
                   pc, op, beganAfterShutdown, created, replaced, localVars>>

\* -------------------------------------------------------------- Initialize
E_WSASTARTUP == "hr(WSAStartup)"
E_LAST_ERROR == "hr(GetLastError)"

CallInitialize(t) ==
    /\ Enter(t, "Initialize", "in26")
    /\ UNCHANGED <<mgrVars, m_srwLock, sp, nextWorker, envVars, histVars, localVars>>

\* line 26: if (!isWSAStartupDone)
Initialize26(t) ==
    /\ pc[t] = "in26"
    /\ Goto(t, IF isWSAStartupDone THEN "in40" ELSE "in28")
    /\ UNCHANGED <<mgrVars, m_srwLock, sp, nextWorker, envVars, histVars, frameVars, localVars>>

\* Initialize() on the second manager of the process
CallInitializePeer(t) ==
    /\ Enter(t, "Initialize", "in26")
    /\ inst' = [inst EXCEPT ![t] = 2]
    /\ UNCHANGED <<mgrVars, m_srwLock, sp, nextWorker, now, ticks, m_hNULHandle,
                   isWSAStartupDone, failTimes, initialized, cursor0, refVars, peer,
                   initHist, histVars, localVars>>

\* m_srwLock and m_hNULHandle of the manager a call is on
LockOf(i) == IF i = 1 THEN m_srwLock ELSE peer.m_srwLock
HandleOf(i) == IF i = 1 THEN m_hNULHandle ELSE peer.m_hNULHandle

\* line 28: auto lock = SRWExclusiveLock(m_srwLock), the lock of the
\* manager the call is on
Initialize28(t) ==
    /\ pc[t] = "in28"
    /\ LockOf(inst[t]).excl = NoThread /\ LockOf(inst[t]).shared = {}
    /\ IF inst[t] = 1
       THEN m_srwLock' = AcquireSRWLockExclusive(t) /\ UNCHANGED peer
       ELSE peer' = [peer EXCEPT !.m_srwLock.excl = t] /\ UNCHANGED m_srwLock
    /\ Goto(t, "in30")
    /\ UNCHANGED <<mgrVars, sp, nextWorker, now, ticks, m_hNULHandle,
                   isWSAStartupDone, failTimes, initialized, cursor0, refVars, inst,
                   initHist, histVars, frameVars, localVars>>

\* the end of the lock scope of line 28
InitializeUnlock(t) ==
    IF inst[t] = 1
    THEN m_srwLock' = ReleaseSRWLockExclusive(t) /\ UNCHANGED peer
    ELSE peer' = [peer EXCEPT !.m_srwLock.excl = NoThread] /\ UNCHANGED m_srwLock

\* line 30: if (!isWSAStartupDone), under the lock of the call's manager
Initialize30(t) ==
    /\ pc[t] = "in30"
    /\ LockOf(inst[t]).excl = t
    /\ IF ~isWSAStartupDone
       THEN Goto(t, "in32") /\ UNCHANGED <<m_srwLock, peer>>
       ELSE Goto(t, "in40") /\ InitializeUnlock(t)
    /\ UNCHANGED <<mgrVars, sp, nextWorker, now, ticks, m_hNULHandle,
                   isWSAStartupDone, failTimes, initialized, cursor0, refVars, inst,
                   initHist, histVars, frameVars, localVars>>

\* lines 32-38: WSAStartup returns; on success the flag is set; the lock
\* scope ends either way
Initialize32(t) ==
    /\ pc[t] = "in32"
    /\ LockOf(inst[t]).excl = t
    /\ InitializeUnlock(t)
    /\ \E result \in {0, 1} :
          IF result # 0
          THEN /\ hr' = [hr EXCEPT ![t] = E_WSASTARTUP]
               /\ Goto(t, "done")
               /\ UNCHANGED <<isWSAStartupDone, initHist>>
          ELSE /\ isWSAStartupDone' = TRUE
               /\ initHist' = [initHist EXCEPT !.startups = @ + 1]
               /\ Goto(t, "in40")
               /\ UNCHANGED hr
    /\ UNCHANGED <<mgrVars, sp, nextWorker, now, ticks, m_hNULHandle, failTimes,
                   initialized, cursor0, refVars, inst, histVars, frameVars, pConfig,
                   currentTickCount,
                   processIndex, pSelectedServerProcess, seen, arg, ppServerProcess, via>>

\* line 40: GetTickCount64() of m_rapidFailTickStart = GetTickCount64();
\* the tick is read first and stored afterwards, with no lock
Initialize40(t) ==
    /\ pc[t] = "in40"
    /\ currentTickCount' = [currentTickCount EXCEPT ![t] = now]
    /\ Goto(t, "in40w")
    /\ UNCHANGED <<mgrVars, m_srwLock, sp, nextWorker, envVars, histVars, frameVars,
                   pConfig, processIndex, pSelectedServerProcess, seen, arg,
                   hr, ppServerProcess, via>>

\* where the call goes on once line 40 has stored: to line 42, or, when
\* the load of line 42 was executed before the store, to what it found
AfterStore(label) ==
    CASE label = "in40w" -> "in42"
      [] label = "in40n" -> "in49"
      [] label = "in40v" -> "done"

\* line 40: the store to m_rapidFailTickStart of the tick read earlier.  The
\* window start of the second manager is read by no step of the model and
\* is not kept.
Initialize40Store(t) ==
    /\ pc[t] \in {"in40w", "in40n", "in40v"}
    /\ IF inst[t] = 1
       THEN m_rapidFailTickStart' = currentTickCount[t] /\ initialized' = TRUE
       ELSE UNCHANGED <<m_rapidFailTickStart, initialized>>
    /\ Goto(t, AfterStore(pc[t]))
    /\ hr' = [hr EXCEPT ![t] = IF pc[t] = "in40v" THEN S_OK ELSE @]
    /\ UNCHANGED <<m_cRapidFailCount, m_dwProcessesPerApplication,
                   m_dwRouteToProcessIndex, passed, m_ppServerProcessList, serverProcessListReady,
                   isStopping, m_srwLock, sp, nextWorker, now, ticks, m_hNULHandle,
                   isWSAStartupDone, failTimes, cursor0, refVars, peerVars, histVars,
                   frameVars, pConfig, currentTickCount, processIndex,
                   pSelectedServerProcess, seen, arg, ppServerProcess, via>>

\* the handles m_hNULHandle can hold
INVALID_HANDLE_VALUE == "INVALID_HANDLE_VALUE"
\* line 42: if (m_hNULHandle == nullptr)
NulHandleUnset(h) == h = "nullptr"

\* lines 42, 60: return S_OK with no open when the handle member is set
Initialize42(t) ==
    /\ pc[t] = "in42"
    /\ IF NulHandleUnset(HandleOf(inst[t]))
       THEN Goto(t, "in49") /\ UNCHANGED hr
       ELSE Goto(t, "done") /\ hr' = [hr EXCEPT ![t] = S_OK]
    /\ UNCHANGED <<mgrVars, m_srwLock, sp, nextWorker, envVars, histVars, frameVars,
                   pConfig, currentTickCount, processIndex, pSelectedServerProcess, seen, arg,
                   ppServerProcess, via>>

\* line 42 executed before the store of line 40: the two accesses are
\* plain, unordered and to different members, and an optimized build loads
\* m_hNULHandle first
Initialize42Hoisted(t) ==
    /\ pc[t] = "in40w"
    /\ Goto(t, IF NulHandleUnset(HandleOf(inst[t])) THEN "in40n" ELSE "in40v")
    /\ UNCHANGED <<mgrVars, m_srwLock, sp, nextWorker, envVars, histVars, frameVars,
                   localVars>>

\* line 49: m_hNULHandle = CreateFileW(L"NUL", ...), stored with no lock; the
\* call goes on to line 57 with the value CreateFileW returned to it
AfterOpen(h) == IF h = INVALID_HANDLE_VALUE THEN "in57i" ELSE "in57v"
Initialize49(t) ==
    /\ pc[t] = "in49"
    /\ \E h \in {"valid", INVALID_HANDLE_VALUE} :
          /\ IF inst[t] = 1
             THEN m_hNULHandle' = h /\ UNCHANGED peer
             ELSE peer' = [peer EXCEPT !.m_hNULHandle = h] /\ UNCHANGED m_hNULHandle
          /\ initHist' = [initHist EXCEPT
                             !.opens[inst[t]] = @ + (IF h = "valid" THEN 1 ELSE 0)]
          /\ Goto(t, AfterOpen(h))
    /\ UNCHANGED <<mgrVars, m_srwLock, sp, nextWorker, now, ticks, isWSAStartupDone,
                   failTimes, initialized, cursor0, refVars, inst, histVars, frameVars,
                   localVars>>

\* the value the call stored at line 49
StoredHandle(label) == IF label = "in57i" THEN INVALID_HANDLE_VALUE ELSE "valid"

\* line 57: the values m_hNULHandle == INVALID_HANDLE_VALUE can be tested
\* on.  The member is plain and written by other calls with no lock: a build
\* that reads it again gets what it holds now, an optimized build tests the
\* value it stored at line 49.
TestedHandles(t) == {HandleOf(inst[t]), StoredHandle(pc[t])}

\* lines 57-60: RETURN_LAST_ERROR_IF(m_hNULHandle == INVALID_HANDLE_VALUE)
\* and return S_OK
Initialize57(t) ==
    /\ pc[t] \in {"in57v", "in57i"}
    /\ \E h \in TestedHandles(t) :
          hr' = [hr EXCEPT ![t] = IF h = INVALID_HANDLE_VALUE
                                  THEN E_LAST_ERROR ELSE S_OK]
    /\ Goto(t, "done")
    /\ UNCHANGED <<mgrVars, m_srwLock, sp, nextWorker, envVars, histVars, frameVars,
                   pConfig, currentTickCount, processIndex, pSelectedServerProcess, seen, arg,
                   ppServerProcess, via>>

\* -------------------------------------------------------- reference count
\* line 65: ++m_cRefs, by a caller that takes its reference from a holder
ReferenceProcessManager(t) ==
    /\ pc[t] = "idle"
    /\ \E u \in Threads : held[u].refs > 0
    /\ m_cRefs < MaxRefs
    /\ calls < MaxCalls
    /\ calls' = calls + 1
    /\ m_cRefs' = m_cRefs + 1
    /\ held' = [held EXCEPT ![t].refs = @ + 1]
    /\ UNCHANGED <<mgrVars, m_srwLock, sp, nextWorker, now, ticks, m_hNULHandle,
                   isWSAStartupDone, failTimes, initialized, cursor0, destroyed,
                   peerVars, histVars, op, beganAfterShutdown, created, replaced,
                   localVars, pc>>

\* the test made on the value before the decrement (m_cRefs-- == 0)
ZeroBeforeDecrement(c) == c + 1 = 0

\* line 70: --m_cRefs == 0, on the value the atomic decrement returns
LastReference(c) == c = 0

\* lines 70-73: if (--m_cRefs == 0) delete this, by a caller giving up a
\* reference it holds
DereferenceProcessManager(t) ==
    /\ pc[t] = "idle"
    /\ held[t].refs > 0
    /\ calls < MaxCalls
    /\ calls' = calls + 1
    /\ m_cRefs' = m_cRefs - 1
    /\ destroyed' = destroyed + (IF LastReference(m_cRefs - 1) THEN 1 ELSE 0)
    /\ held' = [held EXCEPT ![t].refs = @ - 1, ![t].released = @ + 1]
    /\ UNCHANGED <<mgrVars, m_srwLock, sp, nextWorker, now, ticks, m_hNULHandle,
                   isWSAStartupDone, failTimes, initialized, cursor0,
                   peerVars, histVars, op, beganAfterShutdown, created, replaced,
                   localVars, pc>>

\* ------------------------------------------------------------ environment
\* a backend process exits or stops answering: IsReady() turns false
WorkerDies(w) ==
    /\ sp[w].st = "ready"
    /\ sp' = [sp EXCEPT ![w].st = "notready"]
    /\ UNCHANGED <<mgrVars, m_srwLock, nextWorker, envVars, histVars, frameVars,
                   localVars, pc>>

\* GetTickCount64() moves on
TickSteps == {1, ONE_MINUTE_IN_MILLISECONDS - 1}
Tick ==
    /\ ticks < MaxTicks
    /\ ticks' = ticks + 1
    /\ \E d \in TickSteps : now' = now + d
    /\ UNCHANGED <<mgrVars, m_srwLock, sp, nextWorker, m_hNULHandle, isWSAStartupDone,
                   failTimes, initialized, cursor0, refVars, peerVars, histVars,
                   frameVars, localVars, pc>>

\* ------------------------------------------------------ the specifications
GetProcessSteps(t) ==
    \/ GetProcess85(t)
    \/ GetProcess90(t)
    \/ GetProcess92(t)
    \/ GetProcess94(t)
    \/ GetProcess109(t)
    \/ GetProcess114(t)
    \/ GetProcess125(t)
    \/ GetProcess126(t)
    \/ GetProcess128(t)
    \/ GetProcess130(t)
    \/ GetProcess149(t)
    \/ RapidFails249(t)
    \/ RapidFails252(t)
    \/ RapidFails253(t)
    \/ RapidFails256(t)
    \/ GetProcess162(t)
    \/ GetProcess187(t)
    \/ GetProcess195(t)
    \/ GetProcess197(t)

ShutdownSteps(t) ==
    \/ Shutdown233(t)
    \/ ShutdownAllProcesses226(t)
    \/ ShutdownAllProcesses227(t)
    \/ SendShutdownSignal201(t)
    \/ SendShutdownSignal203(t)
    \/ ShutdownProcess219(t)
    \/ ShutdownProcess220(t)

InitializeSteps(t) ==
    \/ Initialize26(t)
    \/ Initialize28(t)
    \/ Initialize30(t)
    \/ Initialize32(t)
    \/ Initialize40(t)
    \/ Initialize40Store(t)
    \/ Initialize42Hoisted(t)
    \/ Initialize42(t)
    \/ Initialize49(t)
    \/ Initialize57(t)

\* Concurrent threads calling GetProcess and the shutdown operations, with
\* failures recorded and workers dying at any moment.
Next ==
    \/ \E t \in Threads : CallGetProcess(t)
    \/ \E t \in Threads : GetProcessSteps(t)
    \/ \E t \in Threads : CallShutdown(t)
    \/ \E t \in Threads : CallShutdownAllProcesses(t)
    \/ \E t \in Threads : CallSendShutdownSignal(t)
    \/ \E t \in Threads : CallShutdownProcess(t)
    \/ \E t \in Threads : ShutdownSteps(t)
    \/ \E t \in Threads : IncrementRapidFailCount(t)
    \/ \E t \in Threads : Return(t)
    \/ \E w \in Workers : WorkerDies(w)

Spec == Init /\ [][Next]_vars

\* The rapid-fail gate over time: thread 1 calls GetProcess, and every
\* thread runs Initialize and records failures, at any moment of a
\* threshold query, while the tick count moves on and workers die.
NextRapidFail ==
    \/ \E t \in Threads : CallInitialize(t)
    \/ \E t \in Threads : InitializeSteps(t)
    \/ \E t \in Threads : IncrementRapidFailCount(t)
    \/ CallGetProcess(Sequential)
    \/ GetProcessSteps(Sequential)
    \/ \E t \in Threads : Return(t)
    \/ \E w \in Workers : WorkerDies(w)
    \/ Tick

SpecRapidFail == Init /\ [][NextRapidFail]_vars

\* Round robin late in the life of a manager: one caller after another
\* calls GetProcess on a fresh manager, or on one whose table of K slots
\* was allocated long ago, whose cursor earlier calls have advanced to
\* cursor0, and whose workers have all been shut down since.
CursorStarts == {INT_MAX - 1, INT_MAX, -2, -1}
InitRoundRobin ==
    \/ Init
    \/ /\ m_cRapidFailCount = 0
       /\ m_rapidFailTickStart = ONE_MINUTE_IN_MILLISECONDS
       /\ \E n \in 1..MaxSlots :
             /\ m_dwProcessesPerApplication = n
             /\ m_ppServerProcessList = [k \in 1..n |-> nullptr]
       /\ m_dwRouteToProcessIndex \in CursorStarts
       /\ cursor0 = m_dwRouteToProcessIndex
       /\ passed = 0
       /\ m_srwLock = Unlocked
       /\ serverProcessListReady = TRUE
       /\ isStopping = FALSE
       /\ m_hNULHandle = "valid"
       /\ isWSAStartupDone = TRUE
       /\ sp = [w \in Workers |-> WorkerInit]
       /\ nextWorker = 1
       /\ now = ONE_MINUTE_IN_MILLISECONDS
       /\ ticks = 0
       /\ pc = [t \in Threads |-> "idle"]
       /\ op = [t \in Threads |-> "none"]
       /\ pConfig = [t \in Threads |-> NoConfig]
       /\ currentTickCount = [t \in Threads |-> 0]
       /\ processIndex = [t \in Threads |-> 0]
       /\ pSelectedServerProcess = [t \in Threads |-> nullptr]
       /\ seen = [t \in Threads |-> nullptr]
       /\ arg = [t \in Threads |-> nullptr]
       /\ hr = [t \in Threads |-> NoResult]
       /\ ppServerProcess = [t \in Threads |-> nullptr]
       /\ via = [t \in Threads |-> 0]
       /\ calls = 0
       /\ allocations = 1
       /\ exchangeWinners = 0
       /\ shutdownWalks = 0
       /\ shutdownReturned = FALSE
       /\ beganAfterShutdown = [t \in Threads |-> FALSE]
       /\ failTimes = <<>>
       /\ initialized = TRUE
       /\ created = [t \in Threads |-> nullptr]
       /\ replaced = [t \in Threads |-> nullptr]
       /\ m_cRefs = 1
       /\ destroyed = 0
       /\ held = [t \in Threads |->
                 [refs |-> IF t = Sequential THEN 1 ELSE 0, released |-> 0]]
       /\ inst = [t \in Threads |-> 1]
       /\ peer = [m_srwLock |-> Unlocked, m_hNULHandle |-> "nullptr"]
       /\ initHist = [startups |-> 1, opens |-> [i \in Instances |-> IF i = 1 THEN 1 ELSE 0]]

NextRoundRobin ==
    \/ CallGetProcess(Sequential)
    \/ GetProcessSteps(Sequential)
    \/ Return(Sequential)
    \/ \E w \in Workers : WorkerDies(w)

SpecRoundRobin == InitRoundRobin /\ [][NextRoundRobin]_vars

\* The life of the manager objects: threads take and give up references to
\* the manager, and call Initialize() on it (while they hold a reference)
\* and on the second manager of the process.
InitializeByHolder(t) ==
    /\ held[t].refs > 0
    /\ CallInitialize(t)

NextLifecycle ==
    \/ \E t \in Threads : ReferenceProcessManager(t)
    \/ \E t \in Threads : DereferenceProcessManager(t)
    \/ \E t \in Threads : InitializeByHolder(t)
    \/ \E t \in Threads : CallInitializePeer(t)
    \/ \E t \in Threads : InitializeSteps(t)
    \/ \E t \in Threads : Return(t)

SpecLifecycle == Init /\ [][NextLifecycle]_vars

\* ================================================================== claims
StepOf(t) == pc'[t] # pc[t]
InGetProcess(t) == op[t] = "GetProcess"
NoWorkerTouched ==
    /\ m_ppServerProcessList' = m_ppServerProcessList
    /\ sp' = sp
    /\ nextWorker' = nextWorker

\* C1: a GetProcess call that begins after a Shutdown() call has returned
\* gets no further than the stopping check: it returns
\* E_APPLICATION_EXITING, and none of its steps starts a worker or changes
\* a slot.
C1_GetProcessAfterShutdown ==
    [][\A t \in Threads :
          /\ (InGetProcess(t) /\ beganAfterShutdown[t] /\ StepOf(t)) => NoWorkerTouched
          /\ (InGetProcess(t) /\ beganAfterShutdown[t])' =>
                (\/ pc[t] = "gp85"
                 \/ pc[t] = "done" /\ hr[t] = E_APPLICATION_EXITING /\ via[t] = 87)'
      ]_vars

C1_Witness ==
    \E t \in Threads :
        /\ InGetProcess(t) /\ beganAfterShutdown[t]
        /\ pc[t] = "done" /\ hr[t] = E_APPLICATION_EXITING

\* C2: in no state where isStopping is true does a step start a worker or
\* store a worker handle into a slot.
WorkerStarted == \E w \in Workers : sp'[w].started /\ ~sp[w].started
HandleStored ==
    \E k \in DOMAIN m_ppServerProcessList' :
        /\ m_ppServerProcessList'[k] # nullptr
        /\ (k \notin DOMAIN m_ppServerProcessList
              \/ m_ppServerProcessList[k] # m_ppServerProcessList'[k])
C2_NoStartWhileStopping ==
    [][isStopping => ~WorkerStarted /\ ~HandleStored]_vars

\* C3: among the callers of Shutdown(), exactly one makes isStopping go
\* from false to true and runs the ShutdownAllProcesses walk, the others
\* run no walk, and isStopping never returns to false.
ShutdownWalkers ==
    {t \in Threads : op[t] = "Shutdown" /\ pc[t] \in {"sa226", "sa227"}}
ShutdownPassed ==
    {t \in Threads : op[t] = "Shutdown" /\ pc[t] \in {"sa226", "sa227", "done"}}
C3_ShutdownWalksOnce ==
    [][/\ isStopping => isStopping'
       /\ (/\ exchangeWinners <= 1
           /\ isStopping <=> (exchangeWinners = 1)
           /\ ShutdownPassed # {} => exchangeWinners = 1
           /\ shutdownWalks + Cardinality(ShutdownWalkers) = exchangeWinners)'
      ]_vars

C3_Witness ==
    /\ shutdownWalks = 1
    /\ \E t1, t2 \in Threads :
          /\ t1 # t2
          /\ op[t1] = "Shutdown" /\ pc[t1] = "done"
          /\ op[t2] = "Shutdown" /\ pc[t2] = "done"

\* C4: once a Shutdown() call has returned and no call is in flight, every
\* slot of the table is empty.
C4_SlotsEmptyAfterShutdown ==
    (shutdownReturned /\ \A t \in Threads : pc[t] = "idle")
        => \A k \in DOMAIN m_ppServerProcessList : m_ppServerProcessList[k] = nullptr

\* C5: a slot that holds a handle changes only by being cleared, with its
\* worker stopped and released in the same step; a handle is stored only
\* into an empty slot; and every started worker that has not been stopped
\* occupies exactly one slot, or is still in the hands of the call that
\* created it, or was deleted by that call.
SlotsOf(w) == {k \in DOMAIN m_ppServerProcessList : m_ppServerProcessList[k] = w}
HeldByCreator(w) ==
    \E t \in Threads : pSelectedServerProcess[t] = w /\ pc[t] \in {"gp187", "gp197"}
LiveWorkersAccounted ==
    \A w \in Workers :
        /\ Cardinality(SlotsOf(w)) <= 1
        /\ (sp[w].started /\ sp[w].st \in {"ready", "notready"}) =>
              (Cardinality(SlotsOf(w)) = 1) # HeldByCreator(w)
OverwriteOnlyCleared ==
    \A k \in DOMAIN m_ppServerProcessList :
        LET old == m_ppServerProcessList[k]
            new == m_ppServerProcessList'[k]
        IN new # old =>
             IF old = nullptr
             THEN sp[new].st = "ready" /\ SlotsOf(new) = {}
             ELSE /\ new = nullptr
                  /\ sp'[old].st = "stopped"
                  /\ sp'[old].deref = sp[old].deref + 1
C5_NoTwoLiveHandles ==
    [][OverwriteOnlyCleared /\ LiveWorkersAccounted']_vars

C5_Witness ==
    \E t1, t2 \in Threads :
        /\ t1 # t2
        /\ InGetProcess(t1) /\ pc[t1] = "done" /\ via[t1] = 196
        /\ InGetProcess(t2) /\ pc[t2] = "done" /\ via[t2] = 145
        /\ processIndex[t1] = processIndex[t2]
        /\ ppServerProcess[t1] = ppServerProcess[t2]
        /\ ppServerProcess[t1] # nullptr

\* C6: the slot table is allocated exactly once, by a GetProcess call at
\* line 97, with as many slots as that call's configuration asks for, all
\* empty; no later step changes its length or m_dwProcessesPerApplication.
AllocatedOnce ==
    /\ allocations <= 1
    /\ ListAllocated <=> (allocations = 1)
    /\ serverProcessListReady => ListAllocated
    /\ ListAllocated => Len(m_ppServerProcessList) = m_dwProcessesPerApplication
AllocationStep ==
    /\ ListAllocated =>
          /\ Len(m_ppServerProcessList') = Len(m_ppServerProcessList)
          /\ m_dwProcessesPerApplication' = m_dwProcessesPerApplication
    /\ (~ListAllocated /\ ListAllocated') =>
          \E t \in Threads :
              /\ pc[t] = "gp94" /\ pc'[t] = "gp109"
              /\ Len(m_ppServerProcessList') = pConfig[t].ppa
              /\ \A k \in DOMAIN m_ppServerProcessList' :
                    m_ppServerProcessList'[k] = nullptr
C6_ListAllocatedOnce ==
    [][AllocationStep /\ AllocatedOnce']_vars

C6_Witness ==
    \E t \in Threads :
        /\ pc[t] = "gp94"
        /\ serverProcessListReady
        /\ allocations = 1
        /\ pConfig[t].ppa # m_dwProcessesPerApplication

\* C10: when the selected slot holds a worker that is ready at the check
\* under the shared lock (line 116) or at the re-check under the exclusive
\* lock (line 130), the call returns S_OK with that worker, and the step
\* creates no worker and changes no slot.
ReturnsReadyWorker(t, index) ==
    LET w == m_ppServerProcessList[index + 1]
    IN (w # nullptr /\ IsReady(w)) =>
          /\ pc'[t] = "done"
          /\ hr'[t] = S_OK
          /\ ppServerProcess'[t] = w
          /\ NoWorkerTouched
C10_ReadyWorkerReturned ==
    [][\A t \in Threads :
          /\ (pc[t] = "gp114" /\ StepOf(t)) => ReturnsReadyWorker(t, processIndex'[t])
          /\ (pc[t] = "gp130" /\ StepOf(t)) => ReturnsReadyWorker(t, processIndex[t])
      ]_vars

C10_Witness ==
    \E t \in Threads :
        /\ InGetProcess(t) /\ pc[t] = "done" /\ via[t] = 120
        /\ hr[t] = S_OK
        /\ ppServerProcess[t] # nullptr
        /\ IsReady(ppServerProcess[t])

\* ------------------------------------------------------- rapid-fail claims
\* the steps of the threshold query of line 149 (lines 247-256)
GateLabels == {"gp149", "rf249", "rf252", "rf253", "rf256"}
GateStep(t) == pc[t] \in GateLabels /\ StepOf(t)
\* the step in which the query returns and GetProcess acts on its result
GateVerdict(t) == pc[t] = "rf256" /\ StepOf(t)
\* currentTickCount - m_rapidFailTickStart >= 60000 in 64-bit unsigned
\* arithmetic, for the tick the query of thread t has read
QueryWindowExpired(t) ==
    \/ currentTickCount[t] < m_rapidFailTickStart
    \/ currentTickCount[t] - m_rapidFailTickStart >= ONE_MINUTE_IN_MILLISECONDS
\* failures recorded less than a minute before the current tick
RecentFailures ==
    {i \in DOMAIN failTimes : now - failTimes[i] < ONE_MINUTE_IN_MILLISECONDS}
Disabled(t) ==
    /\ pc'[t] = "done"
    /\ hr'[t] = ERROR_SERVER_DISABLED
    /\ nextWorker' = nextWorker
    /\ sp' = sp
\* now - m_rapidFailTickStart >= 60000 in 64-bit unsigned arithmetic
WindowExpired ==
    \/ now < m_rapidFailTickStart
    \/ now - m_rapidFailTickStart >= ONE_MINUTE_IN_MILLISECONDS

\* C7 as stated: after Initialize(), whenever more than R failures have been
\* recorded within the last 60 seconds, a GetProcess call that reaches the
\* gate returns ERROR_SERVER_DISABLED and starts no worker.
C7_TripWithinSixtySeconds ==
    [][\A t \in Threads :
          (GateVerdict(t) /\ initialized
             /\ Cardinality(RecentFailures) > pConfig[t].rapidFails) => Disabled(t)
      ]_vars

\* C7 as amended: a query whose tick is less than 60000 ms (unsigned)
\* after the window start leaves the count alone and goes on to compare
\* it, and whenever the count the query compares exceeds R the call returns
\* ERROR_SERVER_DISABLED and starts no worker.
C7_TripWithinWindow ==
    [][\A t \in Threads :
          /\ (pc[t] = "rf249" /\ StepOf(t) /\ ~QueryWindowExpired(t)) =>
                (pc'[t] = "rf256" /\ m_cRapidFailCount' = m_cRapidFailCount)
          /\ (GateVerdict(t) /\ m_cRapidFailCount > pConfig[t].rapidFails) => Disabled(t)
      ]_vars

C7_Witness ==
    \E t \in Threads :
        /\ InGetProcess(t) /\ pc[t] = "done" /\ via[t] = 159
        /\ hr[t] = ERROR_SERVER_DISABLED
        /\ Len(failTimes) = pConfig[t].rapidFails + 1
        /\ m_cRapidFailCount = pConfig[t].rapidFails + 1

\* what a threshold query does, load by load and store by store: it reads
\* the tick, tests the age of the window, resets the count and then the
\* window start when the window is a minute old, and reports exceeded
\* exactly when the count it then loads is above the limit
QueryEffect(t) ==
    CASE pc[t] = "gp149" ->
            /\ m_cRapidFailCount' = m_cRapidFailCount
            /\ m_rapidFailTickStart' = m_rapidFailTickStart
            /\ currentTickCount'[t] = now
      [] pc[t] = "rf249" ->
            /\ m_cRapidFailCount' = m_cRapidFailCount
            /\ m_rapidFailTickStart' = m_rapidFailTickStart
            /\ pc'[t] = IF QueryWindowExpired(t) THEN "rf252" ELSE "rf256"
      [] pc[t] = "rf252" ->
            /\ m_cRapidFailCount' = 0
            /\ m_rapidFailTickStart' = m_rapidFailTickStart
      [] pc[t] = "rf253" ->
            /\ m_cRapidFailCount' = m_cRapidFailCount
            /\ m_rapidFailTickStart' = currentTickCount[t]
      [] pc[t] = "rf256" ->
            /\ m_cRapidFailCount' = m_cRapidFailCount
            /\ m_rapidFailTickStart' = m_rapidFailTickStart
            /\ (m_cRapidFailCount > pConfig[t].rapidFails) <=>
                  (pc'[t] = "done" /\ hr'[t] = ERROR_SERVER_DISABLED)
            /\ (m_cRapidFailCount <= pConfig[t].rapidFails) <=> (pc'[t] = "gp162")
FailureRecorded ==
    /\ m_cRapidFailCount' = m_cRapidFailCount + 1
    /\ m_rapidFailTickStart' = m_rapidFailTickStart

\* C8 as stated, for a manager whose Initialize() has set the window start:
\* apart from the recording of a failure, the failure count and the window
\* start change only in a threshold query; the query resets both when the
\* window is a minute old, and otherwise leaves both alone and reports
\* exceeded exactly when count > limit.
C8_ChangeOnlyOnQuery ==
    [][initialized =>
         /\ (m_cRapidFailCount' # m_cRapidFailCount
              \/ m_rapidFailTickStart' # m_rapidFailTickStart)
            => (FailureRecorded \/ \E t \in Threads : GateStep(t))
         /\ \A t \in Threads : GateStep(t) => QueryEffect(t)
      ]_vars

\* C8 as amended: apart from the recording of a failure, the failure count
\* and the window start change only in a threshold query or in Initialize(),
\* which sets the window start to the current tick (line 40) and leaves the
\* count alone; the query resets both when the unsigned difference between
\* the current tick and the window start is 60000 or more, and otherwise
\* leaves both alone and reports exceeded exactly when count > limit.
InitializeSetsStart ==
    /\ \E t \in Threads :
          /\ pc[t] \in {"in40w", "in40n", "in40v"}
          /\ StepOf(t)
          /\ m_rapidFailTickStart' = currentTickCount[t]
    /\ m_cRapidFailCount' = m_cRapidFailCount
C8_ChangeOnQueryOrInitialize ==
    [][/\ (m_cRapidFailCount' # m_cRapidFailCount
            \/ m_rapidFailTickStart' # m_rapidFailTickStart)
          => (FailureRecorded \/ InitializeSetsStart \/ \E t \in Threads : GateStep(t))
       /\ \A t \in Threads : GateStep(t) => QueryEffect(t)
      ]_vars

\* a query has just reset a window that held recorded failures
C8_Witness ==
    \E t \in Threads :
        /\ pc[t] = "gp162"
        /\ initialized
        /\ failTimes # <<>>
        /\ m_cRapidFailCount = 0
        /\ m_rapidFailTickStart = now
        /\ now >= 2 * ONE_MINUTE_IN_MILLISECONDS

\* ------------------------------------------------------- round-robin claim
\* The call that is about to execute line 114 is call number
\* i = u0 + passed (counting from 0), where u0 is cursor0 read as an
\* unsigned 32-bit number: the number of calls that advanced the cursor
\* before the run began.
SelectStep(t) == pc[t] = "gp114" /\ StepOf(t)
K == m_dwProcessesPerApplication
\* i mod K
OrdinalModK == (UnsignedMod(cursor0, K) + passed) % K
\* (i mod 2^32) mod K: the cursor has wrapped once u0 + passed reaches 2^32
Wrapped == cursor0 < 0 /\ cursor0 + passed >= 0
OrdinalMod32ModK ==
    IF Wrapped
    THEN (UnsignedMod(cursor0, K) + passed + K - TwoTo32Mod(K)) % K
    ELSE OrdinalModK
CursorAdvancesByOne ==
    /\ (\E t \in Threads : SelectStep(t)) =>
          m_dwRouteToProcessIndex' =
             (IF m_dwRouteToProcessIndex = INT_MAX THEN INT_MIN
              ELSE m_dwRouteToProcessIndex + 1)
    /\ (\A t \in Threads : ~SelectStep(t)) =>
          m_dwRouteToProcessIndex' = m_dwRouteToProcessIndex

\* C9 as stated: the i-th sequential GetProcess call selects slot i mod K,
\* an index in 0..K-1, and the cursor advances by one in every call that
\* passes the stopping check and in no other step.
C9_IndexIsOrdinalModK ==
    [][/\ \A t \in Threads :
             SelectStep(t) => /\ processIndex'[t] = OrdinalModK
                              /\ processIndex'[t] \in 0..(K - 1)
       /\ CursorAdvancesByOne
      ]_vars

\* C9 as amended: the i-th sequential GetProcess call selects slot
\* (i mod 2^32) mod K, an index in 0..K-1; the cursor is a 32-bit counter
\* that advances by one, wrapping at 2^32, in every call that passes the
\* stopping check and in no other step.
C9_IndexIsOrdinalMod32ModK ==
    [][/\ \A t \in Threads :
             SelectStep(t) => /\ processIndex'[t] = OrdinalMod32ModK
                              /\ processIndex'[t] \in 0..(K - 1)
       /\ CursorAdvancesByOne
      ]_vars

\* a call has selected a slot after the cursor wrapped, on a table whose
\* size does not divide 2^32
C9_Witness ==
    \E t \in Threads :
        /\ InGetProcess(t) /\ pc[t] = "gp125"
        /\ Wrapped /\ passed >= 2
        /\ TwoTo32Mod(K) # 0
        /\ processIndex[t] # 0

\* ------------------------------------------------- replacement and failure
OtherSlotsUnchanged(index) ==
    /\ Len(m_ppServerProcessList') = Len(m_ppServerProcessList)
    /\ \A k \in DOMAIN m_ppServerProcessList :
          k # index + 1 => m_ppServerProcessList'[k] = m_ppServerProcessList[k]
\* the re-check finds a worker that is not ready: it is stopped and
\* released, its slot cleared and no other, and the call has constructed no
\* worker yet
ReplaceStopsOld(t) ==
    (pc[t] = "gp130" /\ StepOf(t) /\ Recheck(processIndex[t]) = "stop") =>
        LET old == Slot(processIndex[t])
        IN /\ sp'[old].st = "stopped"
           /\ sp'[old].stop = sp[old].stop + 1
           /\ sp'[old].deref = sp[old].deref + 1
           /\ m_ppServerProcessList'[processIndex[t] + 1] = nullptr
           /\ OtherSlotsUnchanged(processIndex[t])
           /\ created[t] = nullptr
\* the replacement, started and ready, goes into the slot of the old worker
ReplaceInstalls(t) ==
    (pc[t] = "gp187" /\ StepOf(t) /\ replaced[t] # nullptr /\ IsReady(created[t])) =>
        /\ sp[replaced[t]].stop > 0
        /\ m_ppServerProcessList'[processIndex[t] + 1] = created[t]
        /\ OtherSlotsUnchanged(processIndex[t])
\* and is what the call returns
ReplaceReturnsNew(t) ==
    (pc[t] = "gp195" /\ StepOf(t) /\ replaced[t] # nullptr) =>
        /\ hr'[t] = S_OK
        /\ ppServerProcess'[t] = created[t]

\* C11: a GetProcess call whose slot holds a worker that is not ready, and
\* whose replacement starts and is ready, stops and releases the old worker
\* before it constructs the new one, installs the new one at the same slot
\* index, returns it, and changes no other slot.
C11_ReplacesNotReadyWorker ==
    [][\A t \in Threads :
          ReplaceStopsOld(t) /\ ReplaceInstalls(t) /\ ReplaceReturnsNew(t)]_vars

SlotsUnchanged == m_ppServerProcessList' = m_ppServerProcessList
\* a call constructs and starts a worker at most once: when it reaches
\* line 164 it has constructed none, and the step constructs one
OneStartAttempt(t) ==
    (pc[t] = "gp162" /\ StepOf(t)) =>
        /\ created[t] = nullptr
        /\ nextWorker' = nextWorker + 1
        /\ created'[t] = nextWorker
\* SERVER_PROCESS::Initialize or ::StartProcess failed
StartFailed(t) == pc[t] = "gp162" /\ pc'[t] = "gp197"
\* the return in progress reaches the end of the function scope
ReturnCompletes(t) == pc[t] = "gp197" /\ StepOf(t)
\* StartProcess itself failed (the return of line 184)
StartProcessFailed(t) == StartFailed(t) /\ via'[t] = 184
\* StartProcess succeeded and the worker is not ready at line 187
NotReadyAfterStart(t) ==
    pc[t] = "gp187" /\ StepOf(t) /\ ~IsReady(pSelectedServerProcess[t])
WorkerDiscarded(t) ==
    /\ SlotsUnchanged
    /\ sp'[created'[t]].st = "deleted"
    /\ SlotsOf(created'[t]) = {}

\* C12: when the start fails, or succeeds with the worker not
\* ready afterwards, GetProcess returns ERROR_CREATE_FAILED, stores no
\* handle, and has made one start attempt.
C12_StartFailureIsCreateFailed ==
    [][\A t \in Threads :
          /\ OneStartAttempt(t)
          /\ (StartProcessFailed(t) \/ NotReadyAfterStart(t)) =>
                /\ pc'[t] = "gp197"
                /\ hr'[t] = ERROR_CREATE_FAILED
                /\ SlotsUnchanged
          /\ ReturnCompletes(t) =>
                /\ pc'[t] = "done"
                /\ hr'[t] = hr[t]
                /\ WorkerDiscarded(t)
      ]_vars

\* ------------------------------------------------------- ShutdownProcess
InShutdownProcess(t) == op[t] = "ShutdownProcess"
\* slots holding a worker with the identity of handle h
SlotsWithIdentity(h) ==
    {k \in DOMAIN m_ppServerProcessList :
        m_ppServerProcessList[k] # nullptr /\ GetPort(m_ppServerProcessList[k]) = GetPort(h)}
CountersUnchanged ==
    /\ m_dwRouteToProcessIndex' = m_dwRouteToProcessIndex
    /\ isStopping' = isStopping
    /\ m_cRapidFailCount' = m_cRapidFailCount
    /\ m_rapidFailTickStart' = m_rapidFailTickStart
    /\ m_dwProcessesPerApplication' = m_dwProcessesPerApplication
    /\ serverProcessListReady' = serverProcessListReady
ShutdownProcessEffect(t) ==
    LET hit == SlotsWithIdentity(arg[t])
    IN /\ Len(m_ppServerProcessList') = Len(m_ppServerProcessList)
       /\ \A k \in DOMAIN m_ppServerProcessList :
             m_ppServerProcessList'[k] =
                (IF k \in hit THEN nullptr ELSE m_ppServerProcessList[k])
       /\ \A w \in Workers :
             IF \E k \in hit : m_ppServerProcessList[k] = w
             THEN /\ sp'[w].st = "stopped"
                  /\ sp'[w].stop = sp[w].stop + 1
                  /\ sp'[w].deref = sp[w].deref + 1
             ELSE sp'[w] = sp[w]

\* C13: ShutdownProcess(handle) stops, releases and clears the slots whose
\* worker has the port of the handle and no other; the other slots, the
\* other workers, the cursor, the stopping flag and the rapid-fail counters
\* stay as they are; with no matching slot, or no table, nothing changes.
C13_ShutdownProcessFrame ==
    [][\A t \in Threads :
          (InShutdownProcess(t) /\ StepOf(t)) =>
             /\ CountersUnchanged
             /\ pc[t] = "sp220" => ShutdownProcessEffect(t)
             /\ pc[t] # "sp220" => (SlotsUnchanged /\ sp' = sp)
      ]_vars

\* ------------------------------------------------------- reference count
RECURSIVE RefsHeldBy(_)
RefsHeldBy(T) ==
    IF T = {} THEN 0
    ELSE LET t == CHOOSE u \in T : TRUE
         IN held[t].refs + RefsHeldBy(T \ {t})
\* every reference counted is held by some thread, and the manager has been
\* deleted exactly when the count is zero, and only once
RefsAccounted ==
    /\ m_cRefs = RefsHeldBy(Threads)
    /\ m_cRefs >= 0
    /\ destroyed \in {0, 1}
    /\ (destroyed = 1) <=> (m_cRefs = 0)

\* C14: with the count starting at 1 and every acquire matched by one
\* release, the manager is deleted exactly once, in the step of the release
\* that brings m_cRefs to zero, and never while m_cRefs is positive.
C14_DestroyedOnceAtZero ==
    [][/\ RefsAccounted'
       /\ destroyed' # destroyed =>
             /\ m_cRefs = 1 /\ m_cRefs' = 0
             /\ destroyed' = destroyed + 1
             /\ \E t \in Threads : held'[t].released = held[t].released + 1
      ]_vars

\* every thread has released a reference, and the last release deleted the
\* manager
C14_Witness ==
    /\ destroyed = 1
    /\ m_cRefs = 0
    /\ \A t \in Threads : held[t].released >= 1

\* ------------------------------------------------------------- Initialize
InInitialize(t) == op[t] = "Initialize"
\* the callers inside WSAStartup
InWSAStartup == {t \in Threads : pc[t] = "in32"}

\* C15: over all callers of Initialize(), on whichever manager, WSAStartup
\* never runs in two callers at once, succeeds at most once in the process,
\* and is not called once it has succeeded.
C15_StartupOnceProcessWide ==
    [][/\ Cardinality(InWSAStartup') <= 1
       /\ initHist'.startups <= 1
       /\ \A t \in Threads :
             (pc[t] # "in32" /\ pc'[t] = "in32") => ~isWSAStartupDone
      ]_vars

\* ------------------------------------------------------- the shutdown walks
\* the walk over the whole table: every occupied slot's worker gets the
\* operation once (soft: SendSignal, hard: StopProcess) and is released
\* once, every slot ends empty, and workers in no slot are left alone
WalkEffect(soft) ==
    /\ Len(m_ppServerProcessList') = Len(m_ppServerProcessList)
    /\ \A k \in DOMAIN m_ppServerProcessList' : m_ppServerProcessList'[k] = nullptr
    /\ \A w \in Workers :
          IF SlotsOf(w) # {}
          THEN /\ sp'[w].signal = sp[w].signal + (IF soft THEN 1 ELSE 0)
               /\ sp'[w].stop = sp[w].stop + (IF soft THEN 0 ELSE 1)
               /\ sp'[w].deref = sp[w].deref + 1
               /\ sp'[w].st = "stopped"
          ELSE sp'[w] = sp[w]
SendShutdownSignalStep(t) == pc[t] = "ss203" /\ StepOf(t)
ShutdownAllProcessesStep(t) == pc[t] = "sa227" /\ StepOf(t)
ShutdownProcessStep(t) == pc[t] = "sp220" /\ StepOf(t)
\* ShutdownProcess applies StopProcess and never SendSignal
HardStopOnly ==
    \A w \in Workers : sp'[w].signal = sp[w].signal /\ sp'[w].stop >= sp[w].stop

\* C16 as stated: SendShutdownSignal() and ShutdownAllProcesses() make the
\* same walk, the first with the soft signal, the second, like
\* ShutdownProcess(), with the hard stop.
C16_SoftSignalVersusHardStop ==
    [][\A t \in Threads :
          /\ SendShutdownSignalStep(t) => WalkEffect(TRUE)
          /\ ShutdownAllProcessesStep(t) => WalkEffect(FALSE)
          /\ ShutdownProcessStep(t) => HardStopOnly
      ]_vars

\* C16 as amended: SendShutdownSignal() and ShutdownAllProcesses() make the
\* same walk with the same operation, the soft signal (SendSignal); only
\* ShutdownProcess() applies the hard stop (StopProcess).
C16_BothWalksSignal ==
    [][\A t \in Threads :
          /\ SendShutdownSignalStep(t) => WalkEffect(TRUE)
          /\ ShutdownAllProcessesStep(t) => WalkEffect(TRUE)
          /\ ShutdownProcessStep(t) => HardStopOnly
      ]_vars

\* a ShutdownAllProcesses() call has walked a table with a worker in it
C16_Witness ==
    \E t \in Threads :
        /\ op[t] = "ShutdownAllProcesses" /\ pc[t] = "done"
        /\ Occupied = {}
        /\ \E w \in Workers :
              sp[w].started /\ sp[w].signal = 1 /\ sp[w].stop = 0 /\ sp[w].deref = 1

\* ------------------------------------------------------------ lock claims

\* C17: every step of GetProcess that reads a slot is taken with the lock
\* held, shared or exclusive, by the calling thread, and every step that
\* changes the table is taken by a thread that holds the lock exclusively.
C17_SlotAccessUnderLock ==
    [][/\ \A t \in Threads :
             (InGetProcess(t) /\ StepOf(t) /\ pc[t] \in SlotReadingSteps) => HoldsLock(t)
       /\ m_ppServerProcessList' # m_ppServerProcessList =>
             \E t \in Threads : StepOf(t) /\ HoldsExclusive(t)
      ]_vars

\* ------------------------------------------------------------------ C18
\* One step of the call thread t is in, between its entry and its return.
ThreadStep(t) == GetProcessSteps(t) \/ ShutdownSteps(t)

\* Every thread inside a call keeps running, and a thread that waits for
\* the lock is granted it if the lock is free again and again: the worker
\* calls return and the SRW lock is granted fairly.
Fairness == \A t \in Threads : SF_vars(ThreadStep(t))
SpecLive == Init /\ [][Next]_vars /\ Fairness

\* the steps that request the lock: lines 92, 109, 128, 201, 219, 226
LockRequestSteps == {"gp92", "gp109", "gp128", "ss201", "sp219", "sa226"}
InCall(t) == pc[t] \notin {"idle", "done"}
Returned(t) == pc[t] = "done"
Faulted(t) == pc[t] = "fault"

\* a returned thread holds no lock, and no thread requests the lock while
\* it holds it
LockDiscipline ==
    \A t \in Threads :
        /\ pc[t] \in {"idle", "done"} => ~HoldsLock(t)
        /\ pc[t] \in LockRequestSteps => ~HoldsLock(t)

\* C18: every call to GetProcess, ShutdownProcess, ShutdownAllProcesses,
\* SendShutdownSignal and Shutdown eventually returns under any fair
\* interleaving; a thread that has returned holds no lock, and no thread
\* requests the lock while it already holds it.
C18_EveryCallReturns ==
    /\ []LockDiscipline
    /\ \A t \in Threads : InCall(t) ~> Returned(t)

\* ------------------------------------------------------------------ C19
\* The worker a returning GetProcess call found ready in its slot: the
\* slot's worker under the shared lock (line 116) or under the exclusive
\* lock (line 130), the worker the call created and installed (line 192),
\* or the worker the pre-check of line 126 found ready.
CheckedWorker(t) ==
    CASE pc[t] = "gp114" -> Slot(SelectIndex(m_dwRouteToProcessIndex))
      [] pc[t] = "gp130" -> Slot(processIndex[t])
      [] pc[t] = "gp195" -> IF created[t] # nullptr THEN created[t] ELSE seen[t]
      [] OTHER -> nullptr

ReturnsSuccess(t) ==
    /\ InGetProcess(t)
    /\ pc[t] # "done"
    /\ pc'[t] = "done"
    /\ hr'[t] = S_OK

\* C19: whenever GetProcess returns success, the handle written to the
\* output is non-null and is the worker the call observed ready in the
\* selected slot, whatever the other threads do meanwhile.
C19_SuccessReturnsObservedWorker ==
    [][\A t \in Threads :
          ReturnsSuccess(t) =>
              /\ ppServerProcess'[t] # nullptr
              /\ ppServerProcess'[t] = CheckedWorker(t)]_vars

\* ------------------------------------------------------------------ C20
\* Initialize() returns success in this step
InitializeSucceeds(t) ==
    /\ InInitialize(t)
    /\ pc[t] # "done"
    /\ pc'[t] = "done"
    /\ hr'[t] = S_OK

\* what QueryNULHandle() of manager i returns after the step
NULHandleAfter(i) == IF i = 1 THEN m_hNULHandle' ELSE peer'.m_hNULHandle

\* C20: whenever Initialize() returns success the discard handle of its
\* manager is a validly opened sink, so a call that follows a failed open
\* does not succeed while the handle is invalid, and the sink is opened at
\* most once per manager.
C20_SuccessMeansValidSink ==
    [][/\ \A t \in Threads :
             InitializeSucceeds(t) => NULHandleAfter(inst[t]) = "valid"
       /\ \A i \in Instances : initHist'.opens[i] <= 1
      ]_vars
====
